---- MODULE Spec2Model ----
(***************************************************************************)
(* OktaClient.Authenticate (okta.go) as a state machine.                   *)
(*                                                                         *)
(* One behaviour is one call of Authenticate.  The identity provider, the  *)
(* Duo relay, the transport and the two interactive prompts are the        *)
(* environment: every client.Do either fails or yields a body drawn from   *)
(* a small set, every prompt yields a value drawn from a small set.        *)
(*                                                                         *)
(* Strings that the code takes apart or puts together character by         *)
(* character (provider, factorType, identifiers, labels, the Duo           *)
(* signature, cookie and sid) are sequences of one-character strings;      *)
(* strings the code only carries around (tokens, ids, hosts, URLs) are     *)
(* TLA+ strings.  gjson's String() of a missing field is the empty string, *)
(* so a missing field is "" (or <<>>) in a body.                           *)
(***************************************************************************)
EXTENDS Integers, Sequences, FiniteSets, TLC

\* ---------------------------------------------------------------- bounds
MaxFactors == 2
MaxPolls == 2

\* ------------------------------------------------------- string helpers
LowerLetters == <<"a","b","c","d","e","f","g","h","i","j","k","l","m","n","o","p","q","r","s","t","u","v","w","x","y","z">>
UpperLetters == <<"A","B","C","D","E","F","G","H","I","J","K","L","M","N","O","P","Q","R","S","T","U","V","W","X","Y","Z">>

\* strings.ToUpper on one character
UpperChar(c) ==
    IF \E i \in 1..26 : LowerLetters[i] = c
    THEN UpperLetters[CHOOSE i \in 1..26 : LowerLetters[i] = c]
    ELSE c

\* strings.ToUpper
ToUpper(s) == [i \in 1..Len(s) |-> UpperChar(s[i])]

\* strings.Split(s, ":"): the pieces between the separators; always at least
\* one piece (Split of "" is [""]).
RECURSIVE SplitFrom(_, _, _)
SplitFrom(s, i, cur) ==
    IF i > Len(s) THEN <<cur>>
    ELSE IF s[i] = ":" THEN <<cur>> \o SplitFrom(s, i + 1, <<>>)
    ELSE SplitFrom(s, i + 1, Append(cur, s[i]))

Split(s) == SplitFrom(s, 1, <<>>)

\* html.UnescapeString, for the named entities &amp; &lt; &gt; &quot;
Entities == << <<"&","a","m","p",";">>, <<"&","l","t",";">>, <<"&","g","t",";">>, <<"&","q","u","o","t",";">> >>
EntityChars == <<"&", "<", ">", "\"">>

EntityAt(s, i) ==
    {k \in 1..Len(Entities) :
        /\ i + Len(Entities[k]) - 1 <= Len(s)
        /\ SubSeq(s, i, i + Len(Entities[k]) - 1) = Entities[k]}

RECURSIVE UnescapeFrom(_, _)
UnescapeFrom(s, i) ==
    IF i > Len(s) THEN <<>>
    ELSE IF EntityAt(s, i) # {}
    THEN LET k == CHOOSE k \in EntityAt(s, i) : TRUE
         IN  <<EntityChars[k]>> \o UnescapeFrom(s, i + Len(Entities[k]))
    ELSE <<s[i]>> \o UnescapeFrom(s, i + 1)

\* a variant of UnescapeString that leaves the text as scraped
UnescapeNone(s) == s

UnescapeString(s) == UnescapeFrom(s, 1)

\* ------------------------------------------------------------ constants
IdentifierDuoMfa == <<"D","U","O"," ","W","E","B">>
IdentifierSmsMfa == <<"O","K","T","A"," ","S","M","S">>
IdentifierTotpMfa == <<"G","O","O","G","L","E"," ","T","O","K","E","N",":","S","O","F","T","W","A","R","E",":","T","O","T","P">>

supportedMfaOptions ==
    (IdentifierDuoMfa :> <<"D","U","O"," ","M","F","A"," ","a","u","t","h","e","n","t","i","c","a","t","i","o","n">>)
    @@ (IdentifierSmsMfa :> <<"S","M","S"," ","M","F","A"," ","a","u","t","h","e","n","t","i","c","a","t","i","o","n">>)
    @@ (IdentifierTotpMfa :> <<"T","O","T","P"," ","M","F","A"," ","a","u","t","h","e","n","t","i","c","a","t","i","o","n">>)

UnsupportedPrefix == <<"U","N","S","U","P","P","O","R","T","E","D",":"," ">>

duoMfaOptions == <<"Passcode", "Duo Push">>

\* ------------------------------------------------------------- errors
\* Go's nil error
Nil == "nil"

\* errors.Wrap of github.com/pkg/errors: Wrap(nil, message) is nil.
Wrap(e, message) == IF e = Nil THEN Nil ELSE message \o ": " \o e

\* ------------------------------------------------- environment's values
\* url.Parse rejects these (a host with a blank, a URL with no scheme)
BadHost == "bad host"
BadURL == ":"

Hostnames == {"org.okta.com", BadHost}

\* http.NewRequest fails when url.Parse of its URL fails
MalformedURLs ==
    {BadURL} \cup {"https://" \o BadHost \o path : path \in {"/frame/web/v1/auth", "/frame/prompt", "/frame/status"}}

NewRequestFails(u) == u \in MalformedURLs

FactorPool ==
    { [id |-> "f-sms", provider |-> <<"O","K","T","A">>, factorType |-> <<"s","m","s">>, href |-> "https://x/verify/sms"],
      [id |-> "f-totp", provider |-> <<"G","O","O","G","L","E">>,
          factorType |-> <<"t","o","k","e","n",":","s","o","f","t","w","a","r","e",":","t","o","t","p">>, href |-> "https://x/verify/totp"],
      [id |-> "f-duo", provider |-> <<"D","U","O">>, factorType |-> <<"w","e","b">>, href |-> "https://x/verify/duo"],
      [id |-> "f-unk", provider |-> <<"U","N","K","N","O","W","N">>, factorType |-> <<"C","U","S","T","O","M">>, href |-> "https://x/verify/unk"],
      [id |-> "f-low", provider |-> <<"o","k","t","a">>, factorType |-> <<"s","m","s">>, href |-> "https://x/verify/low"] }

\* a factor whose verify link url.Parse rejects
BadLinkFactor == [id |-> "f-bad", provider |-> <<"O","K","T","A">>, factorType |-> <<"S","M","S">>, href |-> BadURL]

\* the factor lists of a response: at most MaxFactors factors, each id once
FactorLists ==
    UNION { {fs \in [1..n -> FactorPool] : \A i, j \in 1..n : i # j => fs[i] # fs[j]} : n \in 0..MaxFactors }
    \cup { <<BadLinkFactor>> }

Statuses == {"MFA_REQUIRED", "SUCCESS", "mfa_required", ""}
StateTokens == {"st1"}
\* the state token the identity provider puts in its later responses
ReissuedStateToken == "st3"

\* bodies of POST /api/v1/authn
AuthBodies ==
    { [status |-> "MFA_REQUIRED", stateToken |-> st, sessionToken |-> "", factors |-> fs] :
          st \in StateTokens, fs \in FactorLists }
    \cup
    { [status |-> s, stateToken |-> st, sessionToken |-> t, factors |-> fs] :
          s \in Statuses \ {"MFA_REQUIRED"}, st \in StateTokens, t \in {"tok1", ""},
          fs \in {fs \in FactorLists : \A i \in 1..Len(fs) : fs[i].id \in {"f-sms", "f-duo"}} }

Signatures == { <<"T",":","A">>, <<"T">>, <<>>, <<"T",":","A",":","X">> }

\* bodies of a POST to a factor's verify link
VerifyBodies ==
    { [stateToken |-> ReissuedStateToken, sessionToken |-> "", host |-> "duo.example", signature |-> sg,
       complete |-> "https://x/complete"] : sg \in Signatures }
    \cup
    { [stateToken |-> ReissuedStateToken, sessionToken |-> "", host |-> BadHost, signature |-> <<"T",":","A">>,
       complete |-> "https://x/complete"],
      [stateToken |-> ReissuedStateToken, sessionToken |-> "", host |-> "duo.example", signature |-> <<"T",":","A">>,
       complete |-> BadURL] }

TokenBodies == { [stateToken |-> ReissuedStateToken, sessionToken |-> t] : t \in {"tok2", ""} }

PassCodes == {"123456"}

\* the hidden sid input of the /frame/web/v1/auth page
SidInputs ==
    { [found |-> FALSE, value |-> <<>>],
      [found |-> TRUE, value |-> <<"s","&","a","m","p",";","2">>] }

PromptBodies == { [stat |-> s, txid |-> t] : s \in {"OK", "FAIL", ""}, t \in {"tx1"} }

Cookies == { <<"c","1">>, <<"c","2">> }
StatusBodies == { [result |-> r, cookie |-> c] : r \in {"SUCCESS", "FAILURE", "WAITING"}, c \in Cookies }

\* the hidden SAMLResponse input of the sessionCookieRedirect page
SamlInputs == { [found |-> FALSE, value |-> ""], [found |-> TRUE, value |-> "YXNzZXJ0aW9u"] }

\* gjson.Get(json, path).String(): "" when the field is missing
Get(json, path) == IF path \in DOMAIN json THEN json[path] ELSE ""

\* the same, for a field held as a sequence of characters
GetChars(json, path) == IF path \in DOMAIN json THEN json[path] ELSE <<>>

\* gjson.Get(json, "_embedded.factors").Array()
Factors(json) == IF "factors" \in DOMAIN json THEN json.factors ELSE <<>>

\* gjson.Get(json, "_embedded.factors.<i>.<field>").String(), i counted from 0
FactorField(json, i, field, missing) ==
    IF i + 1 \in 1..Len(Factors(json)) THEN Factors(json)[i + 1][field] ELSE missing

parseMfaIdentifer(json, arrayPosition) ==
    LET mfaProvider == FactorField(json, arrayPosition, "provider", <<>>)
        factorType == ToUpper(FactorField(json, arrayPosition, "factorType", <<>>))
    IN  mfaProvider \o <<" ">> \o factorType

\* a variant of MfaLabel that shows an unsupported identifier as it is
MfaLabelBare(json, i) ==
    LET identifier == parseMfaIdentifer(json, i)
    IN  IF identifier \in DOMAIN supportedMfaOptions
        THEN supportedMfaOptions[identifier]
        ELSE identifier

\* the label of one factor, lines 118-123
MfaLabel(json, i) ==
    LET identifier == parseMfaIdentifer(json, i)
    IN  IF identifier \in DOMAIN supportedMfaOptions
        THEN supportedMfaOptions[identifier]
        ELSE UnsupportedPrefix \o identifier

\* mfaOptions as built by the loop of lines 117-124
BuildMfaOptions(json) == [k \in 1..Len(Factors(json)) |-> MfaLabel(json, k - 1)]

\* ------------------------------------------------------------------ state
VARIABLES
    loginDetails,   \* the argument of Authenticate
    pc,             \* where Authenticate is
    ret,            \* how Authenticate ended: nothing yet, a return, a panic
    err,            \* err of the function scope (lines 83, 93, 101, 106, 403)
    errMfa,         \* err declared in the MFA block (line 142)
    errDuo,         \* err declared in the Duo case (line 217)
    resp,           \* resp of the function scope: the current response body
    samlAssertion,
    stateToken, authStatus,
    mfaOptions, mfaOption, factorID, oktaVerify, mfaIdentifer,
    duoHost, duoSiguatres, duoCallback, duoSID, duoMfaOption, token,
    duoTxID, duoTxResult, duoTxCookie,
    trace,          \* what Authenticate did to the outside, in order
    authBody,       \* history: the body of the credential response
    verifyBody,     \* history: the body of the first verify response
    statusBodies,   \* history: the /frame/status bodies received, in order
    redirectDoc,    \* history: the SAMLResponse input of the redirect page
    tokenBody,      \* history: the body of the verify response read before the redirect
    sidPage,        \* history: the sid input of the /frame/web/v1/auth page
    promptBody,     \* history: the body of the /frame/prompt response
    transportFailed \* history: client.Do returned an error

mfaVars == <<mfaOptions, mfaOption, factorID, oktaVerify, mfaIdentifer>>
duoVars == <<duoHost, duoSiguatres, duoCallback, duoSID, duoMfaOption, token, duoTxID, duoTxResult, duoTxCookie>>
histVars == <<authBody, verifyBody, statusBodies, redirectDoc, tokenBody, sidPage, promptBody, transportFailed>>
vars == <<loginDetails, pc, ret, err, errMfa, errDuo, resp, samlAssertion, stateToken, authStatus,
          mfaVars, duoVars, trace, histVars>>

NoBody == [none |-> TRUE]
NoInput == [found |-> FALSE, value |-> ""]
NoSid == [found |-> FALSE, value |-> <<>>]

\* what ioutil.ReadAll can leave in err
ReadErrs == {Nil, "unexpected EOF"}
\* the same where the code assigns err again before it reads it (lines 155,
\* 178, 296, 377): the value is never looked at, one value stands for both
UnusedReadErrs == {Nil}

\* what client.Do can yield: a transport error, or a response whose body
\* ioutil.ReadAll reads with or without an error
DoOutcomes(bodies, readErrs) ==
    { [ok |-> FALSE] } \cup
    { [ok |-> TRUE, body |-> b, readErr |-> r] : b \in bodies, r \in readErrs }

\* what client.Do followed by goquery.NewDocumentFromResponse can yield
DocOutcomes(inputs) ==
    { [ok |-> FALSE] } \cup
    { [ok |-> TRUE, docErr |-> "html read error"] } \cup
    { [ok |-> TRUE, docErr |-> Nil, input |-> i] : i \in inputs }

Init ==
    /\ loginDetails \in { [Username |-> "user", Password |-> "secret", Hostname |-> h] : h \in Hostnames }
    /\ pc = "start"
    /\ ret = [kind |-> "running", value |-> "", err |-> Nil]
    /\ err = Nil /\ errMfa = Nil /\ errDuo = Nil
    /\ resp = NoBody
    /\ samlAssertion = ""
    /\ stateToken = "" /\ authStatus = ""
    /\ mfaOptions = <<>> /\ mfaOption = 0 /\ factorID = "" /\ oktaVerify = "" /\ mfaIdentifer = <<>>
    /\ duoHost = "" /\ duoSiguatres = <<>> /\ duoCallback = "" /\ duoSID = <<>>
    /\ duoMfaOption = 0 /\ token = "" /\ duoTxID = "" /\ duoTxResult = "" /\ duoTxCookie = <<>>
    /\ trace = <<>>
    /\ authBody = NoBody /\ verifyBody = NoBody /\ statusBodies = <<>>
    /\ redirectDoc = NoInput
    /\ tokenBody = NoBody /\ sidPage = NoSid /\ promptBody = NoBody
    /\ transportFailed = FALSE

\* return samlAssertion, e
Return(value, e) ==
    /\ pc' = "done"
    /\ ret' = [kind |-> "return", value |-> value, err |-> e]

\* a run-time panic: Authenticate does not return
Panic(why) ==
    /\ pc' = "done"
    /\ ret' = [kind |-> "panic", value |-> "", err |-> why]

Goto(label) == pc' = label /\ UNCHANGED ret

oktaOrgHost == loginDetails.Hostname

\* a variant of VerifyRequest that leaves the passcode out
VerifyRequestNoCode(st, passCode) == [stateToken |-> st, passCode |-> ""]

\* a variant of VerifyRequest that takes the state token of the current body
VerifyRequestReread(st, passCode) == [stateToken |-> Get(resp, "stateToken"), passCode |-> passCode]

\* the JSON of a VerifyRequest: passCode is omitted when empty
VerifyRequest(st, passCode) == [stateToken |-> st, passCode |-> passCode]

\* lines 82-110: the credential submission
SubmitCredentials ==
    /\ pc = "start"
    /\ UNCHANGED <<loginDetails, errMfa, errDuo, samlAssertion, mfaVars, duoVars, verifyBody, statusBodies,
                   redirectDoc, tokenBody, sidPage, promptBody>>
    /\ IF loginDetails.Hostname = BadHost
       THEN \* url.Parse fails, oktaURL is nil, oktaURL.Host panics
            /\ Panic("nil pointer dereference")
            /\ UNCHANGED <<err, resp, stateToken, authStatus, trace, authBody, transportFailed>>
       ELSE /\ trace' = Append(trace, [ev |-> "authn", host |-> oktaOrgHost,
                                       username |-> loginDetails.Username, password |-> loginDetails.Password])
            /\ \E o \in DoOutcomes(AuthBodies, ReadErrs) :
                 IF ~o.ok
                 THEN /\ err' = "transport error"
                      /\ transportFailed' = TRUE
                      /\ Return(samlAssertion, Wrap(err', "error retrieving auth response"))
                      /\ UNCHANGED <<resp, stateToken, authStatus, authBody>>
                 ELSE /\ err' = o.readErr
                      /\ UNCHANGED transportFailed
                      /\ resp' = o.body
                      /\ authBody' = o.body
                      /\ stateToken' = Get(resp', "stateToken")
                      /\ authStatus' = Get(resp', "status")
                      /\ Goto("mfa")

\* a variant of MfaRequired that compares the status without regard to case
MfaRequiredCaseless(status) == status \in {"MFA_REQUIRED", "mfa_required"}

\* line 113
MfaRequired(status) == status = "MFA_REQUIRED"

\* a variant of NeedsChooser that asks whenever there is a factor at all
NeedsChooserAlways(options) == Len(options) >= 1

\* line 125
NeedsChooser(options) == Len(options) > 1

\* a variant of IsSupported that lets every identifier through
IsSupportedAny(identifier) == TRUE

\* line 133
IsSupported(identifier) == identifier \in DOMAIN supportedMfaOptions

\* line 113, condition false: the MFA block is skipped
SkipMfa ==
    /\ pc = "mfa"
    /\ ~MfaRequired(authStatus)
    /\ Goto("session")
    /\ UNCHANGED <<loginDetails, err, errMfa, errDuo, resp, samlAssertion, stateToken, authStatus,
                   mfaVars, duoVars, trace, histVars>>

\* lines 113-127: the labels, and the Chooser when there are several
ChooseMfa ==
    /\ pc = "mfa"
    /\ MfaRequired(authStatus)
    /\ mfaOptions' = BuildMfaOptions(resp)
    /\ IF NeedsChooser(mfaOptions')
       THEN /\ mfaOption' \in 0..(Len(mfaOptions') - 1)
            /\ trace' = Append(trace, [ev |-> "choose", prompt |-> "Select which MFA option to use",
                                       options |-> mfaOptions', answer |-> mfaOption'])
       ELSE /\ mfaOption' = 0
            /\ UNCHANGED trace
    /\ Goto("factor")
    /\ UNCHANGED <<loginDetails, err, errMfa, errDuo, resp, samlAssertion, stateToken, authStatus,
                   factorID, oktaVerify, mfaIdentifer, duoVars, histVars>>

\* lines 129-135: the chosen factor, refused when not supported
ResolveFactor ==
    /\ pc = "factor"
    /\ factorID' = FactorField(resp, mfaOption, "id", "")
    /\ oktaVerify' = FactorField(resp, mfaOption, "href", "")
    /\ mfaIdentifer' = parseMfaIdentifer(resp, mfaOption)
    /\ IF ~IsSupported(mfaIdentifer')
       THEN Return(samlAssertion, Wrap(err, "unsupported mfa provider"))
       ELSE Goto("verify")
    /\ UNCHANGED <<loginDetails, err, errMfa, errDuo, resp, samlAssertion, stateToken, authStatus,
                   mfaOptions, mfaOption, duoVars, trace, histVars>>

\* lines 137-156: the first verify call, with the state token only
Verify ==
    /\ pc = "verify"
    /\ UNCHANGED <<loginDetails, err, errDuo, samlAssertion, stateToken, authStatus, mfaVars, duoVars,
                   authBody, statusBodies, redirectDoc, tokenBody, sidPage, promptBody>>
    /\ IF NewRequestFails(oktaVerify)
       THEN /\ errMfa' = "parse url error"
            /\ Return(samlAssertion, Wrap(errMfa', "error building verify request"))
            /\ UNCHANGED <<resp, trace, verifyBody, transportFailed>>
       ELSE /\ trace' = Append(trace, [ev |-> "verify", url |-> oktaVerify, body |-> VerifyRequest(stateToken, "")])
            /\ \E o \in DoOutcomes(VerifyBodies, UnusedReadErrs) :
                 IF ~o.ok
                 THEN /\ errMfa' = "transport error"
                      /\ transportFailed' = TRUE
                      /\ Return(samlAssertion, Wrap(errMfa', "error retrieving verify response"))
                      /\ UNCHANGED <<resp, verifyBody>>
                 ELSE /\ errMfa' = o.readErr
                      /\ UNCHANGED transportFailed
                      /\ resp' = o.body
                      /\ verifyBody' = o.body
                      /\ Goto("dispatch")

\* time.Sleep(3 * time.Second), line 307
SleepSeconds == 3

\* lines 159-179: SMS and TOTP: the passcode prompt and the second verify call
SmsTotp ==
    /\ pc = "dispatch"
    /\ mfaIdentifer \in {IdentifierSmsMfa, IdentifierTotpMfa}
    /\ UNCHANGED <<loginDetails, err, errDuo, samlAssertion, stateToken, authStatus, mfaVars, duoVars,
                   authBody, verifyBody, statusBodies, redirectDoc, sidPage, promptBody>>
    /\ \E verifyCode \in PassCodes :
         LET prompted == Append(trace, [ev |-> "text", prompt |-> "Enter verification code", answer |-> verifyCode])
         IN  IF NewRequestFails(oktaVerify)
             THEN /\ trace' = prompted
                  /\ errMfa' = "parse url error"
                  /\ Return(samlAssertion, Wrap(errMfa', "error building token post request"))
                  /\ UNCHANGED <<resp, tokenBody, transportFailed>>
             ELSE /\ trace' = Append(prompted, [ev |-> "verify", url |-> oktaVerify,
                                                body |-> VerifyRequest(stateToken, verifyCode)])
                  /\ \E o \in DoOutcomes(TokenBodies, UnusedReadErrs) :
                       IF ~o.ok
                       THEN /\ errMfa' = "transport error"
                            /\ transportFailed' = TRUE
                            /\ Return(samlAssertion, Wrap(errMfa', "error retrieving token post response"))
                            /\ UNCHANGED <<resp, tokenBody>>
                       ELSE /\ errMfa' = o.readErr
                            /\ UNCHANGED transportFailed
                            /\ resp' = o.body
                            /\ tokenBody' = o.body
                            /\ Goto("session")

\* the form of the /frame/web/v1/auth request, lines 190-207
DuoAuthRequest(host, sigs) ==
    [ev |-> "duoAuth", url |-> "https://" \o host \o "/frame/web/v1/auth",
     parent |-> "https://" \o oktaOrgHost \o "/signin/verify/duo/web", tx |-> sigs[1]]

\* lines 181-226: Duo: the verification data, the /frame/web/v1/auth call, the sid
DuoAuth ==
    /\ pc = "dispatch"
    /\ mfaIdentifer = IdentifierDuoMfa
    /\ duoHost' = Get(resp, "host")
    /\ duoSiguatres' = Split(GetChars(resp, "signature"))
    /\ duoCallback' = Get(resp, "complete")
    /\ UNCHANGED <<loginDetails, err, resp, samlAssertion, stateToken, authStatus, mfaVars,
                   duoMfaOption, token, duoTxID, duoTxResult, duoTxCookie,
                   authBody, verifyBody, statusBodies, redirectDoc, tokenBody, promptBody>>
    /\ IF NewRequestFails("https://" \o duoHost' \o "/frame/web/v1/auth")
       THEN /\ errMfa' = "parse url error"
            /\ Return(samlAssertion, Wrap(errMfa', "error building authentication request"))
            /\ UNCHANGED <<errDuo, duoSID, trace, sidPage, transportFailed>>
       ELSE /\ trace' = Append(trace, DuoAuthRequest(duoHost', duoSiguatres'))
            /\ \E o \in DocOutcomes(SidInputs) :
                 IF ~o.ok
                 THEN /\ errMfa' = "transport error"
                      /\ transportFailed' = TRUE
                      /\ Return(samlAssertion, Wrap(errMfa', "error retrieving verify response"))
                      /\ UNCHANGED <<errDuo, duoSID, sidPage>>
                 ELSE /\ errMfa' = Nil
                      /\ UNCHANGED transportFailed
                      /\ errDuo' = o.docErr
                      /\ IF errDuo' # Nil
                         THEN /\ Return(samlAssertion, Wrap(errDuo', "error parsing document"))
                              /\ UNCHANGED <<duoSID, sidPage>>
                         ELSE IF ~o.input.found
                         THEN /\ Return(samlAssertion, Wrap(errDuo', "unable to locate saml response"))
                              /\ duoSID' = o.input.value
                              /\ sidPage' = o.input
                         ELSE /\ duoSID' = UnescapeString(o.input.value)
                              /\ sidPage' = o.input
                              /\ Goto("duoChoose")

\* lines 228-242: the Duo option, and the passcode when "Passcode" is chosen
DuoChoose ==
    /\ pc = "duoChoose"
    /\ \E choice \in 0..(Len(duoMfaOptions) - 1) :
         LET chosen == Append(trace, [ev |-> "choose", prompt |-> "Select a DUO MFA Option",
                                      options |-> duoMfaOptions, answer |-> choice])
         IN  /\ duoMfaOption' = choice
             /\ IF duoMfaOptions[choice + 1] = "Passcode"
                THEN /\ token' \in PassCodes
                     /\ trace' = Append(chosen, [ev |-> "text", prompt |-> "Enter passcode", answer |-> token'])
                ELSE /\ trace' = chosen
                     /\ UNCHANGED token
    /\ Goto("duoPrompt")
    /\ UNCHANGED <<loginDetails, err, errMfa, errDuo, resp, samlAssertion, stateToken, authStatus, mfaVars,
                   duoHost, duoSiguatres, duoCallback, duoSID, duoTxID, duoTxResult, duoTxCookie, histVars>>

\* the form of the /frame/prompt request, lines 245-254
DuoPromptRequest ==
    [ev |-> "duoPrompt", url |-> "https://" \o duoHost \o "/frame/prompt", sid |-> duoSID, device |-> "phone1",
     factor |-> duoMfaOptions[duoMfaOption + 1], out_of_date |-> "false",
     passcode |-> IF duoMfaOptions[duoMfaOption + 1] = "Passcode" THEN token ELSE ""]

\* a variant of PromptAccepted that refuses only a stat that says so
PromptAcceptedUnlessFail(stat) == stat # "FAIL"

\* line 273: the prompt response is accepted when its stat is "OK"
PromptAccepted(stat) == stat = "OK"

\* lines 244-275: the /frame/prompt call
DuoPrompt ==
    /\ pc = "duoPrompt"
    /\ UNCHANGED <<loginDetails, err, errMfa, samlAssertion, stateToken, authStatus, mfaVars,
                   duoHost, duoSiguatres, duoCallback, duoSID, duoMfaOption, token, duoTxResult, duoTxCookie,
                   authBody, verifyBody, statusBodies, redirectDoc, tokenBody, sidPage>>
    /\ IF NewRequestFails("https://" \o duoHost \o "/frame/prompt")
       THEN /\ errDuo' = "parse url error"
            /\ Return(samlAssertion, Wrap(errDuo', "error building authentication request"))
            /\ UNCHANGED <<resp, duoTxID, trace, promptBody, transportFailed>>
       ELSE /\ trace' = Append(trace, DuoPromptRequest)
            /\ \E o \in DoOutcomes(PromptBodies, ReadErrs) :
                 IF ~o.ok
                 THEN /\ errDuo' = "transport error"
                      /\ transportFailed' = TRUE
                      /\ Return(samlAssertion, Wrap(errDuo', "error retrieving verify response"))
                      /\ UNCHANGED <<resp, duoTxID, promptBody>>
                 ELSE /\ errDuo' = o.readErr
                      /\ UNCHANGED transportFailed
                      /\ resp' = o.body
                      /\ promptBody' = o.body
                      /\ duoTxID' = Get(resp', "txid")
                      /\ IF ~PromptAccepted(Get(resp', "stat"))
                         THEN Return(samlAssertion, Wrap(errDuo', "error authenticating mfa device"))
                         ELSE Goto("duoStatus")

\* the form of the /frame/status request, lines 278-282; the poll loop sends it again
DuoStatusRequest ==
    [ev |-> "duoStatus", url |-> "https://" \o duoHost \o "/frame/status", sid |-> duoSID, txid |-> duoTxID]

\* a variant of EntersPollLoop that waits and polls once whatever the result
EntersPollLoopAlways(result) == TRUE

\* line 304: the poll loop is entered unless the first result is SUCCESS
EntersPollLoop(result) == result # "SUCCESS"

\* lines 277-304: the first /frame/status call
DuoStatus ==
    /\ pc = "duoStatus"
    /\ UNCHANGED <<loginDetails, err, errMfa, samlAssertion, stateToken, authStatus, mfaVars,
                   duoHost, duoSiguatres, duoCallback, duoSID, duoMfaOption, token, duoTxID,
                   authBody, verifyBody, redirectDoc, tokenBody, sidPage, promptBody>>
    /\ IF NewRequestFails("https://" \o duoHost \o "/frame/status")
       THEN /\ errDuo' = "parse url error"
            /\ Return(samlAssertion, Wrap(errDuo', "error building authentication request"))
            /\ UNCHANGED <<resp, duoTxResult, duoTxCookie, trace, statusBodies, transportFailed>>
       ELSE /\ trace' = Append(trace, DuoStatusRequest)
            /\ \E o \in DoOutcomes(StatusBodies, UnusedReadErrs) :
                 IF ~o.ok
                 THEN /\ errDuo' = "transport error"
                      /\ transportFailed' = TRUE
                      /\ Return(samlAssertion, Wrap(errDuo', "error retrieving verify response"))
                      /\ UNCHANGED <<resp, duoTxResult, duoTxCookie, statusBodies>>
                 ELSE /\ errDuo' = o.readErr
                      /\ UNCHANGED transportFailed
                      /\ resp' = o.body
                      /\ statusBodies' = Append(statusBodies, o.body)
                      /\ duoTxResult' = Get(resp', "result")
                      /\ duoTxCookie' = GetChars(resp', "cookie")
                      /\ IF EntersPollLoop(duoTxResult') THEN Goto("poll") ELSE Goto("callback")

\* a variant of PolledCookie that keeps the cookie of the first status body
PolledCookieStale(body) == duoTxCookie

\* lines 324-325: what one poll iteration keeps of the body it received
PolledCookie(body) == GetChars(body, "cookie")

\* a variant of DuoPoll that takes a transport error as one more result to
\* wait after: the request is sent again
DuoPollRetries ==
    /\ pc = "poll"
    /\ Len(statusBodies) <= MaxPolls
    /\ UNCHANGED <<loginDetails, err, errMfa, resp, samlAssertion, stateToken, authStatus, mfaVars,
                   duoHost, duoSiguatres, duoCallback, duoSID, duoMfaOption, token, duoTxID,
                   authBody, verifyBody, redirectDoc, tokenBody, sidPage, promptBody>>
    /\ LET slept == Append(trace, [ev |-> "sleep", seconds |-> SleepSeconds])
       IN  IF NewRequestFails("https://" \o duoHost \o "/frame/status")
           THEN /\ trace' = slept
                /\ errDuo' = "parse url error"
                /\ Return(samlAssertion, Wrap(errDuo', "error building authentication request"))
                /\ UNCHANGED <<duoTxResult, duoTxCookie, statusBodies, transportFailed>>
           ELSE /\ trace' = Append(slept, DuoStatusRequest)
                /\ \E o \in DoOutcomes(StatusBodies, ReadErrs) :
                     IF ~o.ok
                     THEN /\ errDuo' = "transport error"
                          /\ transportFailed' = TRUE
                          /\ Goto("poll")
                          /\ UNCHANGED <<duoTxResult, duoTxCookie, statusBodies>>
                     ELSE /\ errDuo' = o.readErr
                          /\ UNCHANGED transportFailed
                          /\ statusBodies' = Append(statusBodies, o.body)
                          /\ duoTxResult' = Get(o.body, "result")
                          /\ duoTxCookie' = PolledCookie(o.body)
                          /\ IF duoTxResult' = "FAILURE"
                             THEN Return(samlAssertion, Wrap(errDuo', "failed to authenticate device"))
                             ELSE IF duoTxResult' = "SUCCESS"
                             THEN Goto("callback")
                             ELSE Goto("poll")

\* lines 306-336: one iteration of the poll loop; its resp is a variable of
\* the loop body (line 322), the resp of the function is left alone
DuoPoll ==
    /\ pc = "poll"
    /\ Len(statusBodies) <= MaxPolls
    /\ UNCHANGED <<loginDetails, err, errMfa, resp, samlAssertion, stateToken, authStatus, mfaVars,
                   duoHost, duoSiguatres, duoCallback, duoSID, duoMfaOption, token, duoTxID,
                   authBody, verifyBody, redirectDoc, tokenBody, sidPage, promptBody>>
    /\ LET slept == Append(trace, [ev |-> "sleep", seconds |-> SleepSeconds])
       IN  IF NewRequestFails("https://" \o duoHost \o "/frame/status")
           THEN /\ trace' = slept
                /\ errDuo' = "parse url error"
                /\ Return(samlAssertion, Wrap(errDuo', "error building authentication request"))
                /\ UNCHANGED <<duoTxResult, duoTxCookie, statusBodies, transportFailed>>
           ELSE /\ trace' = Append(slept, DuoStatusRequest)
                /\ \E o \in DoOutcomes(StatusBodies, ReadErrs) :
                     IF ~o.ok
                     THEN /\ errDuo' = "transport error"
                          /\ transportFailed' = TRUE
                          /\ Return(samlAssertion, Wrap(errDuo', "error retrieving verify response"))
                          /\ UNCHANGED <<duoTxResult, duoTxCookie, statusBodies>>
                     ELSE /\ errDuo' = o.readErr
                          /\ UNCHANGED transportFailed
                          /\ statusBodies' = Append(statusBodies, o.body)
                          /\ duoTxResult' = Get(o.body, "result")
                          /\ duoTxCookie' = PolledCookie(o.body)
                          /\ IF duoTxResult' = "FAILURE"
                             THEN Return(samlAssertion, Wrap(errDuo', "failed to authenticate device"))
                             ELSE IF duoTxResult' = "SUCCESS"
                             THEN Goto("callback")
                             ELSE Goto("poll")

\* the form of the callback, lines 340-343 (duoSiguatres[1] of the code is
\* the second piece)
CallbackForm ==
    [ev |-> "callback", url |-> duoCallback, id |-> factorID, stateToken |-> stateToken,
     sig_response |-> duoTxCookie \o <<":">> \o duoSiguatres[2]]

\* lines 339-355: the callback to the identity provider
DuoCallback ==
    /\ pc = "callback"
    /\ UNCHANGED <<loginDetails, err, errMfa, resp, samlAssertion, stateToken, authStatus, mfaVars, duoVars,
                   authBody, verifyBody, statusBodies, redirectDoc, tokenBody, sidPage, promptBody>>
    /\ IF Len(duoSiguatres) < 2
       THEN /\ Panic("index out of range")
            /\ UNCHANGED <<errDuo, trace, transportFailed>>
       ELSE IF NewRequestFails(duoCallback)
       THEN /\ errDuo' = "parse url error"
            /\ Return(samlAssertion, Wrap(errDuo', "error building authentication request"))
            /\ UNCHANGED <<trace, transportFailed>>
       ELSE /\ trace' = Append(trace, CallbackForm)
            /\ \E ok \in BOOLEAN :
                 IF ~ok
                 THEN /\ errDuo' = "transport error"
                      /\ transportFailed' = TRUE
                      /\ Return(samlAssertion, Wrap(errDuo', "error retrieving verify response"))
                 ELSE /\ errDuo' = Nil
                      /\ UNCHANGED transportFailed
                      /\ Goto("duoVerify")

\* lines 357-378: the verify call after the callback
DuoVerify ==
    /\ pc = "duoVerify"
    /\ UNCHANGED <<loginDetails, err, errMfa, samlAssertion, stateToken, authStatus, mfaVars, duoVars,
                   authBody, verifyBody, statusBodies, redirectDoc, sidPage, promptBody>>
    /\ IF NewRequestFails(oktaVerify)
       THEN /\ errDuo' = "parse url error"
            /\ Return(samlAssertion, Wrap(errDuo', "error building verify request"))
            /\ UNCHANGED <<resp, trace, tokenBody, transportFailed>>
       ELSE /\ trace' = Append(trace, [ev |-> "verify", url |-> oktaVerify, body |-> VerifyRequest(stateToken, "")])
            /\ \E o \in DoOutcomes(TokenBodies, UnusedReadErrs) :
                 IF ~o.ok
                 THEN /\ errDuo' = "transport error"
                      /\ transportFailed' = TRUE
                      /\ Return(samlAssertion, Wrap(errDuo', "error retrieving verify response"))
                      /\ UNCHANGED <<resp, tokenBody>>
                 ELSE /\ errDuo' = o.readErr
                      /\ UNCHANGED transportFailed
                      /\ resp' = o.body
                      /\ tokenBody' = o.body
                      /\ Goto("session")

\* a variant of RedirectRequest that takes the token of the first verify response
RedirectRequestFirstVerify ==
    [ev |-> "redirect", url |-> "https://" \o oktaOrgHost \o "/login/sessionCookieRedirect",
     checkAccountSetupComplete |-> "true", token |-> Get(IF verifyBody = NoBody THEN resp ELSE verifyBody, "sessionToken"),
     redirectUrl |-> "https://" \o loginDetails.Hostname]

\* the sessionCookieRedirect request, lines 382-395
RedirectRequest ==
    [ev |-> "redirect", url |-> "https://" \o oktaOrgHost \o "/login/sessionCookieRedirect",
     checkAccountSetupComplete |-> "true", token |-> Get(resp, "sessionToken"),
     redirectUrl |-> "https://" \o loginDetails.Hostname]

\* lines 382-413: the session token exchange and the SAMLResponse input
SessionRedirect ==
    /\ pc = "session"
    /\ UNCHANGED <<loginDetails, errMfa, errDuo, resp, stateToken, authStatus, mfaVars, duoVars,
                   authBody, verifyBody, statusBodies, tokenBody, sidPage, promptBody>>
    /\ trace' = Append(trace, RedirectRequest)
    /\ \E o \in DocOutcomes(SamlInputs) :
         IF ~o.ok
         THEN /\ err' = "transport error"
              /\ transportFailed' = TRUE
              /\ Return(samlAssertion, Wrap(err', "error retrieving verify response"))
              /\ UNCHANGED <<samlAssertion, redirectDoc>>
         ELSE /\ err' = o.docErr
              /\ UNCHANGED transportFailed
              /\ IF err' # Nil
                 THEN /\ Return(samlAssertion, Wrap(err', "error parsing document"))
                      /\ UNCHANGED <<samlAssertion, redirectDoc>>
                 ELSE /\ samlAssertion' = o.input.value
                      /\ redirectDoc' = o.input
                      /\ IF ~o.input.found
                         THEN Return(samlAssertion', Wrap(err', "unable to locate saml response"))
                         ELSE Return(samlAssertion', Nil)

Next ==
    \/ SubmitCredentials
    \/ SkipMfa
    \/ ChooseMfa
    \/ ResolveFactor
    \/ Verify
    \/ SmsTotp
    \/ DuoAuth
    \/ DuoChoose
    \/ DuoPrompt
    \/ DuoStatus
    \/ DuoPoll
    \/ DuoCallback
    \/ DuoVerify
    \/ SessionRedirect

Spec == Init /\ [][Next]_vars

\* lines 306-336 again: the iterations of the poll loop that come after
\* MaxPolls + 1 status bodies are on record.  The loop has no counter and no
\* deadline: the iteration is the same one, only the trace and the record of
\* the bodies are kept as they are.
DuoPollOn ==
    /\ pc = "poll"
    /\ Len(statusBodies) > MaxPolls
    /\ UNCHANGED <<loginDetails, err, errMfa, resp, samlAssertion, stateToken, authStatus, mfaVars,
                   duoHost, duoSiguatres, duoCallback, duoSID, duoMfaOption, token, duoTxID,
                   authBody, verifyBody, redirectDoc, tokenBody, sidPage, promptBody, trace, statusBodies>>
    /\ IF NewRequestFails("https://" \o duoHost \o "/frame/status")
       THEN /\ errDuo' = "parse url error"
            /\ Return(samlAssertion, Wrap(errDuo', "error building authentication request"))
            /\ UNCHANGED <<duoTxResult, duoTxCookie, transportFailed>>
       ELSE /\ \E o \in DoOutcomes(StatusBodies, ReadErrs) :
                 IF ~o.ok
                 THEN /\ errDuo' = "transport error"
                      /\ transportFailed' = TRUE
                      /\ Return(samlAssertion, Wrap(errDuo', "error retrieving verify response"))
                      /\ UNCHANGED <<duoTxResult, duoTxCookie>>
                 ELSE /\ errDuo' = o.readErr
                      /\ UNCHANGED transportFailed
                      /\ duoTxResult' = Get(o.body, "result")
                      /\ duoTxCookie' = PolledCookie(o.body)
                      /\ IF duoTxResult' = "FAILURE"
                         THEN Return(samlAssertion, Wrap(errDuo', "failed to authenticate device"))
                         ELSE IF duoTxResult' = "SUCCESS"
                         THEN Goto("callback")
                         ELSE Goto("poll")

NextLive == Next \/ DuoPollOn

\* Authenticate runs on one goroutine, every call it makes returns: it takes
\* its next step whenever it has one
FairSpec == Init /\ [][NextLive]_vars /\ WF_vars(NextLive)

\* ------------------------------------------------------------- properties
\* positions of the trace holding an event of one kind
EventIdx(kind) == {i \in 1..Len(trace) : trace[i].ev = kind}

RequestKinds == {"authn", "verify", "duoAuth", "duoPrompt", "duoStatus", "callback", "redirect"}
RequestIdx == {i \in 1..Len(trace) : trace[i].ev \in RequestKinds}

FactorPrompt == "Select which MFA option to use"
FactorChooserIdx == {i \in EventIdx("choose") : trace[i].prompt = FactorPrompt}

SupportedIdentifiers == {IdentifierDuoMfa, IdentifierSmsMfa, IdentifierTotpMfa}

Returned == ret.kind = "return"

\* the credential response arrived
AuthAnswered == "status" \in DOMAIN authBody
AuthFactors == Factors(authBody)
MfaAnswered == AuthAnswered /\ authBody.status = "MFA_REQUIRED"

\* a factor has been selected (implicitly or through the Chooser)
FactorSelected == MfaAnswered /\ pc \notin {"start", "mfa"}
FactorResolved == MfaAnswered /\ pc \notin {"start", "mfa", "factor"}

\* the selected factor exists and its identifier is not a supported one
SelectedUnsupported ==
    /\ FactorSelected
    /\ mfaOption + 1 \in 1..Len(AuthFactors)
    /\ parseMfaIdentifer(authBody, mfaOption) \notin SupportedIdentifiers

\* C1: every return of Authenticate is a success or an error: the error is
\* nil only when the redirect page held a SAMLResponse input, the value
\* returned is then that input's value, and every other return has an error.
C1_ReturnIsSuccessOrError ==
    Returned =>
        IF redirectDoc.found
        THEN ret.err = Nil /\ ret.value = redirectDoc.value
        ELSE ret.err # Nil

\* C2: when the selected factor's identifier is not supported, Authenticate
\* returns a non-nil error.
C2_UnsupportedFactorIsAnError ==
    (SelectedUnsupported /\ Returned) => ret.err # Nil

\* C3: when the selected factor's identifier is not supported, the credential
\* POST is the only HTTP request of the call.
C3_NoRequestAfterUnsupported ==
    SelectedUnsupported => (RequestIdx = {1} /\ trace[1].ev = "authn")

\* an unsupported factor chosen through the Chooser, not at index 0, and the
\* call over
C3_Witness ==
    /\ SelectedUnsupported
    /\ pc = "done"
    /\ FactorChooserIdx # {}
    /\ mfaOption = 1

\* C4: a credential response whose status is not exactly MFA_REQUIRED never
\* enters the MFA block: nothing but the sessionCookieRedirect GET follows the
\* credential POST, and it carries the sessionToken of that response.
C4_NonMfaSkipsToRedirect ==
    (AuthAnswered /\ authBody.status # "MFA_REQUIRED") =>
        /\ pc \in {"mfa", "session", "done"}
        /\ Len(trace) \in {1, 2}
        /\ trace[1].ev = "authn"
        /\ Len(trace) = 2 =>
              /\ trace[2].ev = "redirect"
              /\ trace[2].token = Get(authBody, "sessionToken")
        /\ pc = "done" => Len(trace) = 2

\* a response with status "mfa_required" and a list of two factors went
\* straight to the redirect with its own session token
C4_Witness ==
    /\ AuthAnswered
    /\ authBody.status = "mfa_required"
    /\ Len(AuthFactors) = 2
    /\ authBody.sessionToken = "tok1"
    /\ pc = "done"
    /\ Len(trace) = 2
    /\ trace[2].ev = "redirect"

\* C5 as stated: with exactly one factor the Chooser is never invoked during
\* the call, and the factor at index 0 is used.
C5_NoChooserForOneFactor ==
    (MfaAnswered /\ Len(AuthFactors) = 1) =>
        /\ EventIdx("choose") = {}
        /\ FactorSelected => mfaOption = 0

\* C5 amended: with exactly one factor the Chooser is never invoked to select
\* the factor, and the factor at index 0 is used: its id, its verify link and
\* its identifier.  (The Duo sub-flow still asks the Chooser for its option.)
C5_NoFactorChooserForOneFactor ==
    (MfaAnswered /\ Len(AuthFactors) = 1) =>
        /\ FactorChooserIdx = {}
        /\ FactorSelected => mfaOption = 0
        /\ FactorResolved =>
              /\ factorID = AuthFactors[1].id
              /\ oktaVerify = AuthFactors[1].href
              /\ mfaIdentifer = parseMfaIdentifer(authBody, 0)
        /\ \A i \in EventIdx("verify") : trace[i].url = AuthFactors[1].href
        /\ \A i \in EventIdx("callback") : trace[i].id = AuthFactors[1].id

\* the sole factor is Duo: no Chooser call for the factor, one for the Duo
\* option, and the flow went on to the callback
C5_Witness ==
    /\ MfaAnswered
    /\ Len(AuthFactors) = 1
    /\ mfaIdentifer = IdentifierDuoMfa
    /\ FactorChooserIdx = {}
    /\ EventIdx("choose") # {}
    /\ EventIdx("callback") # {}

\* the label the spec gives the factor at position k (from 1) of the list
ExpectedLabel(k) ==
    LET identifier == parseMfaIdentifer(authBody, k - 1)
    IN  IF identifier = IdentifierDuoMfa THEN supportedMfaOptions[IdentifierDuoMfa]
        ELSE IF identifier = IdentifierSmsMfa THEN supportedMfaOptions[IdentifierSmsMfa]
        ELSE IF identifier = IdentifierTotpMfa THEN supportedMfaOptions[IdentifierTotpMfa]
        ELSE <<"U","N","S","U","P","P","O","R","T","E","D",":"," ">> \o identifier

\* C6: with more than one factor the Chooser is asked for the factor exactly
\* once, right after the credential response, with one label per factor in
\* the order of the factors, and the id, verify link and identifier used
\* afterwards are those of the factor at the index it returned.
C6_ChooserOnceWithLabels ==
    (FactorSelected /\ Len(AuthFactors) > 1) =>
        /\ FactorChooserIdx = {2}
        /\ Len(trace[2].options) = Len(AuthFactors)
        /\ \A k \in 1..Len(AuthFactors) : trace[2].options[k] = ExpectedLabel(k)
        /\ trace[2].answer \in 0..(Len(AuthFactors) - 1)
        /\ mfaOption = trace[2].answer
        /\ FactorResolved =>
              /\ factorID = AuthFactors[trace[2].answer + 1].id
              /\ oktaVerify = AuthFactors[trace[2].answer + 1].href
              /\ mfaIdentifer = parseMfaIdentifer(authBody, trace[2].answer)
        /\ \A i \in EventIdx("verify") : trace[i].url = AuthFactors[trace[2].answer + 1].href
        /\ \A i \in EventIdx("callback") : trace[i].id = AuthFactors[trace[2].answer + 1].id

\* two factors, the first unsupported, the second (Duo) chosen and used up to
\* the callback
C6_Witness ==
    /\ FactorSelected
    /\ Len(AuthFactors) = 2
    /\ parseMfaIdentifer(authBody, 0) \notin SupportedIdentifiers
    /\ FactorChooserIdx = {2}
    /\ trace[2].answer = 1
    /\ EventIdx("callback") # {}

\* the signature of the first verify response, and its two parts when it has
\* exactly one ':'
HasSignature == "signature" \in DOMAIN verifyBody
ColonIdx(s) == {k \in 1..Len(s) : s[k] = ":"}
TwoParts(s) == Cardinality(ColonIdx(s)) = 1
TxPart(s) == SubSeq(s, 1, (CHOOSE k \in ColonIdx(s) : TRUE) - 1)
AppPart(s) == SubSeq(s, (CHOOSE k \in ColonIdx(s) : TRUE) + 1, Len(s))

\* C7: for a signature "T:A" the /frame/web/v1/auth request carries tx = T,
\* and the callback carries sig_response = C ":" A, C being the cookie of the
\* last status response received, whose result was SUCCESS.
C7_DuoSignatureAndCookie ==
    (HasSignature /\ TwoParts(GetChars(verifyBody, "signature"))) =>
        /\ \A i \in EventIdx("duoAuth") : trace[i].tx = TxPart(verifyBody.signature)
        /\ \A i \in EventIdx("callback") :
              /\ statusBodies # <<>>
              /\ statusBodies[Len(statusBodies)].result = "SUCCESS"
              /\ trace[i].sig_response =
                     statusBodies[Len(statusBodies)].cookie \o <<":">> \o AppPart(verifyBody.signature)

\* a callback after several status responses, the first with another cookie
\* than the last
C7_Witness ==
    /\ HasSignature
    /\ TwoParts(GetChars(verifyBody, "signature"))
    /\ EventIdx("callback") # {}
    /\ Len(statusBodies) >= 2
    /\ statusBodies[1].cookie # statusBodies[Len(statusBodies)].cookie

\* the results received so far are r1..rn, rn = SUCCESS and none before it
\* SUCCESS or FAILURE
ScriptedSuccess ==
    /\ statusBodies # <<>>
    /\ statusBodies[Len(statusBodies)].result = "SUCCESS"
    /\ \A i \in 1..(Len(statusBodies) - 1) : statusBodies[i].result \notin {"SUCCESS", "FAILURE"}

LastIdx(S) == CHOOSE i \in S : \A j \in S : j <= i
FirstIdx(S) == CHOOSE i \in S : \A j \in S : i <= j

\* C8: for results r1..rn ending in the first SUCCESS, with no FAILURE before
\* it, there are exactly n status requests and n-1 waits of three seconds, one
\* wait right before each status request but the first; the loop is left, and
\* nothing follows the last status request but the callback.
C8_PollsUntilSuccess ==
    ScriptedSuccess =>
        /\ Cardinality(EventIdx("duoStatus")) = Len(statusBodies)
        /\ Cardinality(EventIdx("sleep")) = Len(statusBodies) - 1
        /\ \A i \in EventIdx("sleep") : trace[i].seconds = 3 /\ i + 1 \in EventIdx("duoStatus")
        /\ \A i \in EventIdx("duoStatus") :
              (i - 1 \in EventIdx("sleep")) <=> (i # FirstIdx(EventIdx("duoStatus")))
        /\ pc \in {"callback", "duoVerify", "session", "done"}
        /\ LastIdx(EventIdx("duoStatus")) < Len(trace) =>
              trace[LastIdx(EventIdx("duoStatus")) + 1].ev = "callback"

\* WAITING, WAITING, SUCCESS: three status requests, two waits, then the callback
C8_Witness ==
    /\ Len(statusBodies) = 3
    /\ statusBodies[1].result = "WAITING"
    /\ statusBodies[2].result = "WAITING"
    /\ statusBodies[3].result = "SUCCESS"
    /\ Cardinality(EventIdx("sleep")) = 2
    /\ EventIdx("callback") # {}

\* C9: a status response with result FAILURE is terminal wherever it comes,
\* also as the first one: no wait, no status request, no callback and no
\* redirect follow it.
C9_FailureIsTerminal ==
    \A k \in 1..Len(statusBodies) :
        statusBodies[k].result = "FAILURE" =>
            /\ Cardinality(EventIdx("duoStatus")) = k
            /\ Cardinality(EventIdx("sleep")) = k - 1
            /\ EventIdx("callback") = {}
            /\ EventIdx("redirect") = {}

\* C10: every verify request and the callback carry the state token of the
\* credential response, whatever the later bodies hold.
C10_StateTokenThreaded ==
    AuthAnswered =>
        /\ \A i \in EventIdx("verify") : trace[i].body.stateToken = authBody.stateToken
        /\ \A i \in EventIdx("callback") : trace[i].stateToken = authBody.stateToken

\* the Duo flow got past the callback and the verify call after it, while the
\* current body holds another state token
C10_Witness ==
    /\ AuthAnswered
    /\ Cardinality(EventIdx("verify")) = 2
    /\ EventIdx("callback") # {}
    /\ Get(resp, "stateToken") # authBody.stateToken
    /\ pc = "done"

\* the selected factor, when the list holds one at the selected index
SelectedFactor == AuthFactors[mfaOption + 1]

\* C11: the identifier of the selected factor is the upper-case form of the
\* whole string "<provider> <factorType>", so that a factor written in another
\* letter case than a supported one is identified as that supported one.
C11_IdentifierIsUppercaseOfWhole ==
    (FactorResolved /\ mfaOption + 1 \in 1..Len(AuthFactors)) =>
        mfaIdentifer = ToUpper(SelectedFactor.provider \o <<" ">> \o SelectedFactor.factorType)

\* C12: when client.Do fails, whichever request it was sending, Authenticate
\* returns a non-nil error at once: the failed request is the last thing it
\* did, it is not sent again and no other request follows.
C12_TransportFailureIsTerminal ==
    transportFailed =>
        /\ pc = "done"
        /\ Returned
        /\ ret.err # Nil
        /\ trace # <<>>
        /\ trace[Len(trace)].ev \in RequestKinds

\* the transport failed in an iteration of the poll loop, after a wait
C12_Witness ==
    /\ transportFailed
    /\ Len(trace) >= 2
    /\ trace[Len(trace)].ev = "duoStatus"
    /\ trace[Len(trace) - 1].ev = "sleep"
    /\ Cardinality(EventIdx("duoStatus")) = Len(statusBodies) + 1

\* C13: the sessionCookieRedirect request is never sent with an empty token:
\* when the current body has no sessionToken (gjson then yields ""),
\* Authenticate returns an error instead of sending it.
C13_NoRedirectWithoutToken ==
    \A i \in EventIdx("redirect") : trace[i].token # ""

\* the selected factor is SMS or TOTP
SmsTotpSelected == FactorResolved /\ mfaIdentifer \in {IdentifierSmsMfa, IdentifierTotpMfa}

\* what the call did after the credential POST and the selection of the factor
AfterSelection == SubSeq(trace, IF FactorChooserIdx = {} THEN 2 ELSE 3, Len(trace))

\* C14: with SMS or TOTP selected, what follows the credential submission is
\* exactly: a verify request with the state token only, the Text Prompt, a
\* verify request to the same link with the state token and the passcode that
\* was typed, and the redirect with the sessionToken of the second verify
\* response; a failure cuts the sequence short, nothing else ever occurs in it.
C14_SmsTotpSequence ==
    SmsTotpSelected =>
        LET did == AfterSelection
            link == SelectedFactor.href
        IN  /\ Len(did) <= 4
            /\ Len(did) >= 1 =>
                  /\ did[1].ev = "verify"
                  /\ did[1].url = link
                  /\ did[1].body = [stateToken |-> authBody.stateToken, passCode |-> ""]
            /\ Len(did) >= 2 => did[2].ev = "text"
            /\ Len(did) >= 3 =>
                  /\ did[3].ev = "verify"
                  /\ did[3].url = link
                  /\ did[3].body = [stateToken |-> authBody.stateToken, passCode |-> did[2].answer]
            /\ Len(did) >= 4 =>
                  /\ did[4].ev = "redirect"
                  /\ tokenBody # NoBody
                  /\ did[4].token = Get(tokenBody, "sessionToken")
            /\ pc = "dispatch" => Len(did) = 1
            /\ pc = "session" => Len(did) = 3
            /\ (pc = "done" /\ ~transportFailed /\ ~NewRequestFails(link)) => Len(did) = 4

\* TOTP chosen among two factors, the whole sequence done, and the assertion
\* returned
C14_Witness ==
    /\ SmsTotpSelected
    /\ mfaIdentifer = IdentifierTotpMfa
    /\ FactorChooserIdx # {}
    /\ Len(AfterSelection) = 4
    /\ AfterSelection[4].token = "tok2"
    /\ Returned /\ ret.err = Nil

\* the requests of the call, in the order they were sent
Requests == SelectSeq(trace, LAMBDA e : e.ev \in RequestKinds)

DuoSelected == FactorResolved /\ mfaIdentifer = IdentifierDuoMfa

\* the kinds of request that may come right after the request at position i
\* of the Duo flow
DuoSuccessors(reqs, i) ==
    IF reqs[i].ev = "authn" THEN {"verify"}
    ELSE IF reqs[i].ev = "verify" THEN (IF i = 2 THEN {"duoAuth"} ELSE {"redirect"})
    ELSE IF reqs[i].ev = "duoAuth" THEN {"duoPrompt"}
    ELSE IF reqs[i].ev = "duoPrompt" THEN {"duoStatus"}
    ELSE IF reqs[i].ev = "duoStatus" THEN {"duoStatus", "callback"}
    ELSE IF reqs[i].ev = "callback" THEN {"verify"}
    ELSE {}

\* C15: with Duo selected the requests come in the order /frame/web/v1/auth,
\* /frame/prompt, one or more /frame/status, callback, verify, redirect; when
\* the callback is sent the last status response received had result SUCCESS;
\* the redirect carries the sessionToken of the verify response that came
\* after the callback.
C15_DuoRequestOrder ==
    DuoSelected =>
        LET reqs == Requests
        IN  /\ \A i \in 1..(Len(reqs) - 1) : reqs[i + 1].ev \in DuoSuccessors(reqs, i)
            /\ \A i \in EventIdx("callback") :
                  /\ statusBodies # <<>>
                  /\ Cardinality(EventIdx("duoStatus")) = Len(statusBodies)
                  /\ statusBodies[Len(statusBodies)].result = "SUCCESS"
            /\ \A i \in EventIdx("redirect") :
                  /\ i = Len(trace)
                  /\ i >= 3
                  /\ trace[i - 1].ev = "verify"
                  /\ trace[i - 2].ev = "callback"
                  /\ tokenBody # NoBody
                  /\ trace[i].token = Get(tokenBody, "sessionToken")

\* a Duo flow through two status requests up to the redirect, which carries
\* the token of the last verify response
C15_Witness ==
    /\ DuoSelected
    /\ Len(Requests) = 9
    /\ Cardinality(EventIdx("duoStatus")) = 2
    /\ trace[Len(trace)].ev = "redirect"
    /\ trace[Len(trace)].token = "tok2"
    /\ pc = "done"

\* the text an HTML attribute value stands for, for values that hold no
\* other entity than &amp;
RECURSIVE AmpDecoded(_)
AmpDecoded(s) ==
    IF s = <<>> THEN <<>>
    ELSE IF Len(s) >= 5 /\ SubSeq(s, 1, 5) = <<"&","a","m","p",";">>
    THEN <<"&">> \o AmpDecoded(SubSeq(s, 6, Len(s)))
    ELSE <<Head(s)>> \o AmpDecoded(Tail(s))

\* C16: /frame/prompt is requested at most once, and every /frame/status
\* request, the first and those of the poll loop, carries the sid scraped from
\* the /frame/web/v1/auth page, unescaped, and the txid of the /frame/prompt
\* response.
C16_OneSidTxidPair ==
    /\ Cardinality(EventIdx("duoPrompt")) <= 1
    /\ \A i \in EventIdx("duoStatus") :
          /\ sidPage.found
          /\ trace[i].sid = AmpDecoded(sidPage.value)
          /\ promptBody # NoBody
          /\ trace[i].txid = Get(promptBody, "txid")

\* three status requests, with a sid that differs from the text scraped
C16_Witness ==
    /\ Cardinality(EventIdx("duoStatus")) = 3
    /\ sidPage.found
    /\ trace[LastIdx(EventIdx("duoStatus"))].sid # sidPage.value
    /\ trace[LastIdx(EventIdx("duoStatus"))].txid = "tx1"

\* the /frame/prompt response arrived and its stat is not "OK"
PromptRefused == promptBody # NoBody /\ Get(promptBody, "stat") # "OK"

\* C17: after a /frame/prompt response whose stat is not "OK", a missing stat
\* included, the call is over and the /frame/prompt request is the last thing
\* it did: no status request, wait, callback, further verify or redirect.
C17_PromptRefusalStops ==
    PromptRefused =>
        /\ pc = "done"
        /\ trace[Len(trace)].ev = "duoPrompt"
        /\ EventIdx("duoStatus") = {}
        /\ EventIdx("sleep") = {}
        /\ EventIdx("callback") = {}
        /\ EventIdx("redirect") = {}
        /\ Cardinality(EventIdx("verify")) = 1

\* a /frame/prompt response without stat, after a passcode was typed
C17_Witness ==
    /\ PromptRefused
    /\ promptBody.stat = ""
    /\ EventIdx("text") # {}
    /\ pc = "done"

\* a status response received so far had result SUCCESS or FAILURE
ResultDecided == \E k \in 1..Len(statusBodies) : statusBodies[k].result \in {"SUCCESS", "FAILURE"}

\* C18: every HTTP call and every prompt returning, once the status results
\* contain SUCCESS or FAILURE the call comes to its end.
C18_ReturnsOnceDecided == ResultDecided ~> (ret.kind # "running")

\* C19: whatever the signature of the verify response, also one without ':'
\* or an empty one, the callback has an application signature to send:
\* Authenticate never aborts with an index out of range.
C19_CallbackNeverAborts ==
    ~(ret.kind = "panic" /\ ret.err = "index out of range")

\* the credential response asks for MFA and lists no factor
NoFactorListed == MfaAnswered /\ Len(AuthFactors) = 0

\* C20: MFA_REQUIRED with no factor in the list: the Chooser is not invoked,
\* the credential POST stays the only request, and Authenticate returns a
\* non-nil error.
C20_NoFactorIsAnError ==
    NoFactorListed =>
        /\ EventIdx("choose") = {}
        /\ RequestIdx = {1}
        /\ pc \in {"mfa", "factor", "done"}
        /\ pc = "done" => (Returned /\ ret.err # Nil)

====
